---- MODULE Spec2Model ----
(***************************************************************************)
(* VisageVault persistence layer: the SQLite photo repository              *)
(* (src/db_manager.py, class VisageVaultDB) and the JSON configuration     *)
(* store (src/config_manager.py).                                          *)
(*                                                                         *)
(* The database file is the only state the repository has: every method    *)
(* opens its own connection, works, commits and closes.  A method call is   *)
(* one action; the steps of its body (connect, the statements, commit, the  *)
(* except and finally clauses) are computed by the *_call operators, with   *)
(* the place where the storage engine fails, if it does, as an input.       *)
(* The configuration file is the only state of the configuration store:    *)
(* every getter reads the whole document, every setter reads it, changes    *)
(* one key and writes the whole document back.                              *)
(***************************************************************************)
EXTENDS Integers, Sequences, FiniteSets, TLC

VARIABLES
    tables,       \* names of the tables that exist in the database file
    photosCols,   \* column names of table photos, in order (<<>>: no table)
    photos,       \* rows of table photos (records over photosCols)
    faces,        \* rows of table faces: [id, photo_id]
    constructed,  \* VisageVaultDB.__init__ has returned an object
    openConns,    \* connections the repository holds between calls
    openTxns,     \* transactions the repository holds between calls
    lastCall,     \* what the last call was given and what it returned
    written,      \* history: filepath -> <<year, month>> of its last committed write
    attached,     \* history: face id -> filepath of the photo it was inserted for
    config_file,  \* the file at get_config_path()
    lastConfig,   \* what the last configuration call was given and what it returned
    hashed,       \* history: the plaintexts given to set_safe_password_hash
    setters,      \* the threads inside a setter: where each is, what it read
    saved,        \* history: the threads that wrote the configuration file, in order
    updaters,     \* the threads inside update_photo_date: where each is
    writeLock,    \* the thread whose connection holds the database's write lock (0: none)
    committed     \* history: the threads whose update was committed, in order

repository == <<tables, photosCols, photos, faces, constructed, openConns, openTxns,
                lastCall, written, attached>>
configuration == <<config_file, lastConfig, hashed>>

threads == <<setters, saved, updaters, writeLock, committed>>

vars == <<repository, configuration, threads>>

----------------------------------------------------------------------------
(* Bounds of the model *)

\* the largest rowid of table photos: a batch is taken only while it fits
MaxId == 3
\* the longest photos_data
MaxBatch == 3
\* the most rows of table faces
MaxFaces == 1

(* Values *)

NULL == "NULL"
Filepaths == {"/a/1.jpg", "/a/2.jpg"}
Dates == {<<"2024", "01">>, <<"2023", "12">>}
Hashes == {"h1"}

\* a (filepath, year, month) triple of photos_data; a None filepath makes
\* its statement fail on the NOT NULL constraint: the storage error that a
\* batch meets at its first, a middle or its last entry
BadEntry == <<NULL, "2024", "01">>
Entries == {<<f, d[1], d[2]>> : f \in Filepaths, d \in Dates} \cup {BadEntry}
\* the batches of at most n entries
Batches(n) == UNION {[1..k -> Entries] : k \in 0..(IF n < MaxBatch THEN n ELSE MaxBatch)}

\* where the storage engine fails in a call: nowhere, when the file is
\* opened, at the at-th statement, or at commit
NoFault == [step |-> "none", at |-> 0]
Faults(n) == {NoFault, [step |-> "connect", at |-> 0], [step |-> "commit", at |-> 0]}
             \cup {[step |-> "execute", at |-> k] : k \in 1..n}

None == <<>>

----------------------------------------------------------------------------
(* The schema, src/db_manager.py create_tables *)

AllTables == {"photos", "faces", "people", "face_labels"}
LegacyCols == <<"id", "filepath", "file_hash", "year">>
CurrentCols == <<"id", "filepath", "file_hash", "year", "month">>

Columns(cols) == {cols[i] : i \in 1..Len(cols)}


\* mutant: the migration does not look at the columns the table has
NeedsMonth_Always(cols) == TRUE

\* PRAGMA table_info(photos) has no month column
NeedsMonth(cols) == "month" \notin Columns(cols)

Database(t, c, p) == [tables |-> t, cols |-> c, photos |-> p]

\* CREATE TABLE IF NOT EXISTS photos (id, filepath, file_hash, year, month)
CreatePhotos(db) ==
    IF "photos" \in db.tables THEN db
    ELSE Database(db.tables \cup {"photos"}, CurrentCols, {})

\* CREATE TABLE IF NOT EXISTS faces / people / face_labels
CreateTable(db, name) == [db EXCEPT !.tables = @ \cup {name}]

\* mutant: the migration rebuilds the table instead of altering it
AlterAddMonth_Recreate(db) ==
    [ok |-> "photos" \in db.tables /\ "month" \notin Columns(db.cols),
     db |-> [db EXCEPT !.cols = CurrentCols, !.photos = {}]]

\* ALTER TABLE photos ADD COLUMN month TEXT: the rows keep their values and
\* get a null month; the engine refuses a column name the table already has
AlterAddMonth(db) ==
    IF "month" \in Columns(db.cols) \/ "photos" \notin db.tables
    THEN [ok |-> FALSE, db |-> db]
    ELSE [ok |-> TRUE,
          db |-> [db EXCEPT
                    !.cols = Append(@, "month"),
                    !.photos = {[c \in DOMAIN r \cup {"month"} |->
                                   IF c = "month" THEN NULL ELSE r[c]] : r \in @}]]

----------------------------------------------------------------------------
(* A connection: the committed file, this connection's view of it, and     *)
(* whether it has a transaction open.                                      *)

\* _get_connection: sqlite3.connect(self.db_file)
get_connection(db) == [open |-> TRUE, inTxn |-> FALSE, disk |-> db, work |-> db]

\* the sqlite3 module opens no transaction for a CREATE or ALTER statement:
\* the statement is committed as it is executed
ExecDDL(conn, db) == [conn EXCEPT !.work = db, !.disk = db]

\* mutant: a connection in autocommit mode (isolation_level=None)
ExecDML_Autocommit(conn, db) == [conn EXCEPT !.work = db, !.disk = db]

\* the sqlite3 module issues BEGIN before an INSERT, REPLACE or UPDATE
Begin(conn) == [conn EXCEPT !.inTxn = TRUE]

\* an INSERT, REPLACE or UPDATE changes this connection's view only
ExecDML(conn, db) == [conn EXCEPT !.work = db]

\* conn.commit(): a no-op when no transaction is open
Commit(conn) ==
    IF conn.inTxn THEN [conn EXCEPT !.disk = conn.work, !.inTxn = FALSE] ELSE conn

CommitFails(conn, fault) == conn.inTxn /\ fault.step = "commit"

\* mutant: close() at the end of the try block instead of the finally clause
Close_AfterCommitOnly(conn) ==
    IF conn.inTxn THEN conn
    ELSE [conn EXCEPT !.open = FALSE, !.work = conn.disk]

\* conn.close() in the finally clause: the open transaction is rolled back
Close(conn) == [conn EXCEPT !.open = FALSE, !.inTxn = FALSE, !.work = conn.disk]

\* what a call leaves behind and hands to its caller
Return(conn, outcome, result, diag) ==
    [db |-> conn.disk, outcome |-> outcome, result |-> result, diag |-> diag,
     conns |-> IF conn.open THEN 1 ELSE 0,
     txns |-> IF conn.inTxn THEN 1 ELSE 0]

\* sqlite3.connect raised: the call sits outside the try block
Raise(db) ==
    [db |-> db, outcome |-> "raised", result |-> None, diag |-> FALSE,
     conns |-> 0, txns |-> 0]

----------------------------------------------------------------------------
(* create_tables *)

RECURSIVE CreateRest(_, _, _, _)
\* statements 4..6: CREATE TABLE IF NOT EXISTS faces, people, face_labels
CreateRest(conn, names, k, fault) ==
    IF names = <<>> THEN [ok |-> TRUE, conn |-> conn]
    ELSE IF fault.step = "execute" /\ fault.at = k
         THEN [ok |-> FALSE, conn |-> conn]
         ELSE CreateRest(ExecDDL(conn, CreateTable(conn.work, Head(names))),
                         Tail(names), k + 1, fault)

\* statements 1..3: CREATE TABLE IF NOT EXISTS photos, PRAGMA table_info,
\* and ALTER TABLE ... ADD COLUMN month when the column is not listed
MigratePhotos(conn, fault) ==
    IF fault.step = "execute" /\ fault.at = 1 THEN [ok |-> FALSE, conn |-> conn]
    ELSE LET c1 == ExecDDL(conn, CreatePhotos(conn.work)) IN
         IF fault.step = "execute" /\ fault.at = 2 THEN [ok |-> FALSE, conn |-> c1]
         ELSE IF ~NeedsMonth(c1.work.cols) THEN [ok |-> TRUE, conn |-> c1]
         ELSE IF fault.step = "execute" /\ fault.at = 3 THEN [ok |-> FALSE, conn |-> c1]
         ELSE LET a == AlterAddMonth(c1.work) IN
              IF a.ok THEN [ok |-> TRUE, conn |-> ExecDDL(c1, a.db)]
              ELSE [ok |-> FALSE, conn |-> c1]

create_tables_call(db, fault) ==
    IF fault.step = "connect" THEN Raise(db)
    ELSE LET conn == get_connection(db)
             m == MigratePhotos(conn, fault)
             r == IF m.ok
                  THEN CreateRest(m.conn, <<"faces", "people", "face_labels">>, 4, fault)
                  ELSE m
         IN IF r.ok /\ ~CommitFails(r.conn, fault)
            THEN Return(Close(Commit(r.conn)), "ok", None, FALSE)
            ELSE Return(Close(r.conn), "error", None, TRUE)

----------------------------------------------------------------------------
(* The statements on table photos *)

Ids(rows) == {r.id : r \in rows}
MaxRowid(rows) == IF rows = {} THEN 0 ELSE CHOOSE i \in Ids(rows) : \A j \in Ids(rows) : j <= i

\* id INTEGER PRIMARY KEY: a row inserted without an id gets the largest
\* rowid of the table plus one
NewRowid(rows) == MaxRowid(rows) + 1

\* mutant: file_hash declared without UNIQUE
Conflicts_FilepathOnly(rows, new) == {r \in rows : r.filepath = new.filepath}

\* filepath TEXT NOT NULL UNIQUE, file_hash TEXT UNIQUE: the rows a new row
\* collides with (null hashes never collide)
Conflicts(rows, new) ==
    {r \in rows : r.filepath = new.filepath
                  \/ (new.file_hash # NULL /\ r.file_hash = new.file_hash)}

\* the statement names a table or a column the schema does not have
SchemaError(db, cols) == "photos" \notin db.tables \/ ~(cols \subseteq Columns(db.cols))

\* mutant: INSERT OR IGNORE, which keeps the row the filepath already has
InsertOrIgnore(db, e) ==
    IF "photos" \notin db.tables \/ ~({"filepath", "year", "month"} \subseteq Columns(db.cols))
       \/ e[1] = NULL
    THEN [ok |-> FALSE, db |-> db]
    ELSE IF \E r \in db.photos : r.filepath = e[1]
         THEN [ok |-> TRUE, db |-> db]
         ELSE [ok |-> TRUE,
               db |-> [db EXCEPT !.photos = @ \cup
                         {[id |-> 1 + Cardinality(@), filepath |-> e[1],
                           file_hash |-> NULL, year |-> e[2], month |-> e[3]]}]]

\* mutant: INSERT ... ON CONFLICT(filepath) DO UPDATE SET year, month, which
\* keeps the id and the file_hash of the row the filepath already has
InsertOrReplace_InPlace(db, e) ==
    IF SchemaError(db, {"filepath", "year", "month"}) \/ e[1] = NULL
    THEN [ok |-> FALSE, db |-> db]
    ELSE IF \E r \in db.photos : r.filepath = e[1]
         THEN [ok |-> TRUE,
               db |-> [db EXCEPT !.photos =
                         {IF r.filepath = e[1]
                          THEN [r EXCEPT !.year = e[2], !.month = e[3]]
                          ELSE r : r \in @}]]
         ELSE [ok |-> TRUE,
               db |-> [db EXCEPT !.photos = @ \cup
                         {[id |-> NewRowid(@), filepath |-> e[1],
                           file_hash |-> NULL, year |-> e[2], month |-> e[3]]}]]

\* INSERT OR REPLACE INTO photos (filepath, year, month) VALUES (?, ?, ?)
InsertOrReplace(db, e) ==
    IF SchemaError(db, {"filepath", "year", "month"}) \/ e[1] = NULL
    THEN [ok |-> FALSE, db |-> db]
    ELSE LET new == [id |-> NewRowid(db.photos), filepath |-> e[1],
                     file_hash |-> NULL, year |-> e[2], month |-> e[3]]
         IN [ok |-> TRUE,
             db |-> [db EXCEPT !.photos = (@ \ Conflicts(@, new)) \cup {new}]]

\* mutant: the row is written again as a whole, as INSERT OR REPLACE does
UpdateWhere_Replace(db, filepath, new_year, new_month) ==
    IF SchemaError(db, {"filepath", "year", "month"})
    THEN [ok |-> FALSE, db |-> db]
    ELSE [ok |-> TRUE,
          db |-> IF \E r \in db.photos : r.filepath = filepath
                 THEN [db EXCEPT !.photos =
                         {r \in @ : r.filepath # filepath}
                         \cup {[id |-> NewRowid(@), filepath |-> filepath,
                                 file_hash |-> NULL, year |-> new_year,
                                 month |-> new_month]}]
                 ELSE db]

\* mutant: the UPDATE sets the month and forgets the year
UpdateWhere_MonthOnly(db, filepath, new_year, new_month) ==
    IF SchemaError(db, {"filepath", "year", "month"})
    THEN [ok |-> FALSE, db |-> db]
    ELSE [ok |-> TRUE,
          db |-> [db EXCEPT !.photos =
                    {IF r.filepath = filepath THEN [r EXCEPT !.month = new_month] ELSE r
                       : r \in @}]]

\* mutant: the UPDATE sets the year and forgets the month
UpdateWhere_YearOnly(db, filepath, new_year, new_month) ==
    [ok |-> "photos" \in db.tables /\ {"filepath", "year", "month"} \subseteq Columns(db.cols),
     db |-> IF "photos" \in db.tables /\ {"filepath", "year", "month"} \subseteq Columns(db.cols)
            THEN [db EXCEPT !.photos =
                    {IF r.filepath = filepath THEN [r EXCEPT !.year = new_year] ELSE r : r \in @}]
            ELSE db]

\* mutant: an upsert in place of the UPDATE, which inserts the missing row
UpdateWhere_Upsert(db, filepath, new_year, new_month) ==
    IF "photos" \notin db.tables \/ ~({"filepath", "year", "month"} \subseteq Columns(db.cols))
    THEN [ok |-> FALSE, db |-> db]
    ELSE [ok |-> TRUE,
          db |-> [db EXCEPT !.photos =
                    {r \in @ : r.filepath # filepath}
                    \cup {[id |-> 1 + Cardinality(@), filepath |-> filepath,
                            file_hash |-> NULL, year |-> new_year, month |-> new_month]}]]

\* UPDATE photos SET year = ?, month = ? WHERE filepath = ?
UpdateWhere(db, filepath, new_year, new_month) ==
    IF SchemaError(db, {"filepath", "year", "month"})
    THEN [ok |-> FALSE, db |-> db]
    ELSE [ok |-> TRUE,
          db |-> [db EXCEPT !.photos =
                    {IF r.filepath = filepath
                     THEN [r EXCEPT !.year = new_year, !.month = new_month]
                     ELSE r : r \in @}]]

\* SELECT year, month FROM photos WHERE filepath = ?, then fetchone()
SelectDate(db, filepath) ==
    IF SchemaError(db, {"filepath", "year", "month"})
    THEN [ok |-> FALSE, row |-> None]
    ELSE LET hit == {r \in db.photos : r.filepath = filepath} IN
         [ok |-> TRUE,
          row |-> IF hit = {} THEN None
                  ELSE LET r == CHOOSE x \in hit : TRUE IN <<r.year, r.month>>]

\* SELECT filepath, year, month FROM photos, then the dict comprehension
SelectAll(db) ==
    IF SchemaError(db, {"filepath", "year", "month"})
    THEN [ok |-> FALSE, map |-> <<>>]
    ELSE [ok |-> TRUE,
          map |-> [f \in {r.filepath : r \in db.photos} |->
                     LET r == CHOOSE x \in db.photos : x.filepath = f
                     IN <<r.year, r.month>>]]

----------------------------------------------------------------------------
(* The repository's methods *)

RECURSIVE executemany(_, _, _, _)
\* cursor.executemany: one statement per entry, in order, in one transaction;
\* the first failing statement ends it
executemany(conn, photos_data, k, fault) ==
    IF k > Len(photos_data) THEN [ok |-> TRUE, conn |-> conn, at |-> 0]
    ELSE LET s == InsertOrReplace(conn.work, photos_data[k]) IN
         IF ~s.ok \/ (fault.step = "execute" /\ fault.at = k)
         THEN [ok |-> FALSE, conn |-> conn, at |-> k]
         ELSE executemany(ExecDML(conn, s.db), photos_data, k + 1, fault)

bulk_upsert_photos_call(db, photos_data, fault) ==
    IF fault.step = "connect" THEN Raise(db)
    ELSE LET conn == get_connection(db)
             x == executemany(IF photos_data = <<>> THEN conn ELSE Begin(conn),
                              photos_data, 1, fault)
         IN IF x.ok /\ ~CommitFails(x.conn, fault)
            THEN Return(Close(Commit(x.conn)), "ok", None, FALSE)
            ELSE Return(Close(x.conn), "error", None, TRUE)

update_photo_date_call(db, filepath, new_year, new_month, fault) ==
    IF fault.step = "connect" THEN Raise(db)
    ELSE LET conn == Begin(get_connection(db))
             s == UpdateWhere(conn.work, filepath, new_year, new_month)
             c2 == IF s.ok /\ fault.step # "execute" THEN ExecDML(conn, s.db) ELSE conn
         IN IF s.ok /\ fault.step # "execute" /\ ~CommitFails(c2, fault)
            THEN Return(Close(Commit(c2)), "ok", None, FALSE)
            ELSE Return(Close(c2), "error", None, TRUE)

get_photo_date_call(db, filepath, fault) ==
    IF fault.step = "connect" THEN Raise(db)
    ELSE LET conn == get_connection(db)
             s == SelectDate(conn.work, filepath)
         IN IF s.ok /\ fault.step # "execute"
            THEN Return(Close(conn), "ok", s.row, FALSE)
            ELSE Return(Close(conn), "error", None, FALSE)

load_all_photo_dates_call(db, fault) ==
    IF fault.step = "connect" THEN Raise(db)
    ELSE LET conn == get_connection(db)
             s == SelectAll(conn.work)
         IN IF s.ok /\ fault.step # "execute"
            THEN Return(Close(conn), "ok", s.map, FALSE)
            ELSE Return(Close(conn), "error", <<>>, TRUE)

----------------------------------------------------------------------------
(* State *)

DB == Database(tables, photosCols, photos)

Call(op, f, date, n, at, r, existed, migrated, fault) ==
    [op |-> op, f |-> f, date |-> date, n |-> n, at |-> at, fault |-> fault.step,
     outcome |-> r.outcome, result |-> r.result, diag |-> r.diag,
     existed |-> existed, migrated |-> migrated]

NoCall ==
    [op |-> "none", f |-> NULL, date |-> None, n |-> 0, at |-> 0, fault |-> "none",
     outcome |-> "ok", result |-> None, diag |-> FALSE,
     existed |-> FALSE, migrated |-> FALSE]

Exists(rows, f) == \E r \in rows : r.filepath = f

\* the file the program finds at startup: none (or an empty one), or one
\* written by the version whose photos table had no month column
LegacyRow1 == [id |-> 1, filepath |-> "/a/1.jpg", file_hash |-> "h1", year |-> "2024"]
LegacyRow2 == [id |-> 2, filepath |-> "/a/2.jpg", file_hash |-> NULL, year |-> NULL]
StartupFiles ==
    {Database({}, <<>>, {})}
    \cup {Database(t, LegacyCols, p) :
            t \in {{"photos"}, AllTables},
            p \in {{}, {LegacyRow1}, {LegacyRow1, LegacyRow2}}}

\* Python's None
PyNone == [type |-> "NoneType", v |-> NULL]

\* no file at the configuration path
NoFile == [exists |-> FALSE, decodes |-> FALSE, parses |-> FALSE, object |-> <<>>]

NoConfigCall ==
    [op |-> "none", arg |-> PyNone, load |-> "none", save |-> "none",
     result |-> PyNone, diag |-> FALSE, raised |-> FALSE]

\* no password was ever given
NothingHashed == [last |-> <<>>, seen |-> {}]

\* the dict {}
EmptyDict == <<>>

\* the configuration of a program that never touches it
ConfigAtRest ==
    /\ config_file = NoFile
    /\ lastConfig = NoConfigCall
    /\ hashed = NothingHashed

\* the two threads of the concurrent calls
Threads == {1, 2}
Other(t) == CHOOSE u \in Threads : u # t

\* a thread that has not called yet
Idle ==
    [pc |-> "idle", key |-> "none", value |-> PyNone, loaded |-> EmptyDict,
     other |-> "idle", clean |-> TRUE]

\* no thread is inside the configuration store or the repository
ThreadsAtRest ==
    /\ setters = [t \in Threads |-> Idle]
    /\ saved = <<>>
    /\ updaters = [t \in Threads |-> [pc |-> "idle"]]
    /\ writeLock = 0
    /\ committed = <<>>

Init ==
    \E db \in StartupFiles :
        /\ tables = db.tables
        /\ photosCols = db.cols
        /\ photos = db.photos
        /\ faces = {}
        /\ constructed = FALSE
        /\ openConns = 0
        /\ openTxns = 0
        /\ lastCall = NoCall
        /\ written = [f \in {r.filepath : r \in db.photos} |->
                        LET r == CHOOSE x \in db.photos : x.filepath = f
                        IN <<r.year, NULL>>]
        /\ attached = <<>>
        /\ ConfigAtRest
        /\ ThreadsAtRest

\* the file and the held resources after a call returned r
Leaves(r) ==
    /\ tables' = r.db.tables
    /\ photosCols' = r.db.cols
    /\ photos' = r.db.photos
    /\ openConns' = openConns + r.conns
    /\ openTxns' = openTxns + r.txns

RECURSIVE Record(_, _)
\* the history after the triples of a committed batch, in order
Record(w, photos_data) ==
    IF photos_data = <<>> THEN w
    ELSE LET e == Head(photos_data) IN
         Record([f \in DOMAIN w \cup {e[1]} |-> IF f = e[1] THEN <<e[2], e[3]>> ELSE w[f]],
                Tail(photos_data))

----------------------------------------------------------------------------
(* Actions: one per call of a method *)

\* VisageVaultDB(db_file): __init__ runs create_tables; no object when it raises
VisageVaultDB(fault) ==
    /\ ~constructed
    /\ \E r \in {create_tables_call(DB, fault)} :
        /\ Leaves(r)
        /\ constructed' = (r.outcome # "raised")
        /\ lastCall' = Call("create_tables", NULL, None, 0, 0, r, FALSE,
                            NeedsMonth(photosCols) /\ ~NeedsMonth(r.db.cols)
                            /\ "photos" \in tables, fault)
    /\ UNCHANGED <<configuration, threads>>
    /\ UNCHANGED <<faces, written, attached>>

create_tables(fault) ==
    /\ constructed
    /\ \E r \in {create_tables_call(DB, fault)} :
        /\ Leaves(r)
        /\ lastCall' = Call("create_tables", NULL, None, 0, 0, r, FALSE,
                            NeedsMonth(photosCols) /\ ~NeedsMonth(r.db.cols)
                            /\ "photos" \in tables, fault)
    /\ UNCHANGED <<configuration, threads>>
    /\ UNCHANGED <<faces, constructed, written, attached>>

bulk_upsert_photos(photos_data, fault) ==
    /\ constructed
    /\ MaxRowid(photos) + Len(photos_data) <= MaxId
    /\ \E r \in {bulk_upsert_photos_call(DB, photos_data, fault)} :
       LET single == Len(photos_data) = 1
           at == IF r.outcome = "error" /\ fault.step # "commit"
                 THEN executemany(get_connection(DB), photos_data, 1, fault).at
                 ELSE 0
       IN
        /\ Leaves(r)
        /\ lastCall' = Call("bulk_upsert_photos",
                            IF single THEN photos_data[1][1] ELSE NULL,
                            IF single THEN <<photos_data[1][2], photos_data[1][3]>> ELSE None,
                            Len(photos_data), at, r,
                            single /\ Exists(photos, photos_data[1][1]), FALSE, fault)
        /\ written' = IF r.outcome = "ok" THEN Record(written, photos_data) ELSE written
    /\ UNCHANGED <<configuration, threads>>
    /\ UNCHANGED <<faces, constructed, attached>>

update_photo_date(filepath, new_year, new_month, fault) ==
    /\ constructed
    /\ \E r \in {update_photo_date_call(DB, filepath, new_year, new_month, fault)} :
        /\ Leaves(r)
        /\ lastCall' = Call("update_photo_date", filepath, <<new_year, new_month>>, 0, 0, r,
                            Exists(photos, filepath), FALSE, fault)
        /\ written' = IF r.outcome = "ok" /\ filepath \in DOMAIN written
                      THEN [written EXCEPT ![filepath] = <<new_year, new_month>>]
                      ELSE written
    /\ UNCHANGED <<configuration, threads>>
    /\ UNCHANGED <<faces, constructed, attached>>

get_photo_date(filepath, fault) ==
    /\ constructed
    /\ \E r \in {get_photo_date_call(DB, filepath, fault)} :
        /\ Leaves(r)
        /\ lastCall' = Call("get_photo_date", filepath, None, 0, 0, r,
                            Exists(photos, filepath), FALSE, fault)
    /\ UNCHANGED <<configuration, threads>>
    /\ UNCHANGED <<faces, constructed, written, attached>>

load_all_photo_dates(fault) ==
    /\ constructed
    /\ \E r \in {load_all_photo_dates_call(DB, fault)} :
        /\ Leaves(r)
        /\ lastCall' = Call("load_all_photo_dates", NULL, None, 0, 0, r, FALSE, FALSE, fault)
    /\ UNCHANGED <<configuration, threads>>
    /\ UNCHANGED <<faces, constructed, written, attached>>

----------------------------------------------------------------------------
(* The face pipeline, outside this layer: it writes the rows this layer    *)
(* only declares, with statements of its own on the same file.             *)

PipelineCall(outcome) == [NoCall EXCEPT !.op = "pipeline", !.outcome = outcome]

\* INSERT INTO faces: for a photo that exists when the face is inserted
pipeline_insert_face(photo_id) ==
    /\ constructed
    /\ "faces" \in tables
    /\ photo_id \in Ids(photos)
    /\ Cardinality(faces) < MaxFaces
    /\ LET id == NewRowid(faces)
           owner == CHOOSE r \in photos : r.id = photo_id
       IN /\ faces' = faces \cup {[id |-> id, photo_id |-> photo_id]}
          /\ attached' = [i \in DOMAIN attached \cup {id} |->
                            IF i = id THEN owner.filepath ELSE attached[i]]
    /\ lastCall' = PipelineCall("ok")
    /\ UNCHANGED <<configuration, threads>>
    /\ UNCHANGED <<tables, photosCols, photos, constructed, openConns, openTxns, written>>

\* UPDATE photos SET file_hash = ? WHERE filepath = ?: aborted by the
\* UNIQUE constraint when another row holds the hash
pipeline_set_file_hash(filepath, hash) ==
    /\ constructed
    /\ "photos" \in tables
    /\ Exists(photos, filepath)
    /\ LET old == CHOOSE r \in photos : r.filepath = filepath
           new == [old EXCEPT !.file_hash = hash]
       IN IF Conflicts(photos \ {old}, new) = {}
          THEN photos' = (photos \ {old}) \cup {new} /\ lastCall' = PipelineCall("ok")
          ELSE photos' = photos /\ lastCall' = PipelineCall("error")
    /\ UNCHANGED <<configuration, threads>>
    /\ UNCHANGED <<tables, photosCols, faces, constructed, openConns, openTxns,
                   written, attached>>

----------------------------------------------------------------------------
(* Configuration store (src/config_manager.py, the definitions in effect:  *)
(* the later ones of the file)                                             *)

\* Python values of the configuration and the JSON values they are written as
PyInt(n) == [type |-> "int", v |-> n]
PyStr(s) == [type |-> "str", v |-> s]
Number(n) == [json |-> "number", v |-> n]
String(s) == [json |-> "string", v |-> s]
JsonNull == [json |-> "null", v |-> NULL]

\* the default of get_thumbnail_size
DefaultThumbnailSize == 128

Sizes == {PyInt(256), PyInt(64)}
Directories == {PyStr("/photos"), PyStr("/mnt/usb")}
FolderIds == {PyStr("folder-1")}
Plaintexts == {"secret", "wrong", ""}

\* hashlib.sha256(password_plain.encode()).hexdigest()
sha256 ==
    [p \in Plaintexts |->
        CASE p = "secret" -> "2bb80d537b1da3e38bd30361aa855686bde0eacd7162fef6a25fe97bf527a25b"
          [] p = "wrong" -> "8810ad581e59f2bc3928b261707a71308f7e139eb04820366dc4d5c18d980225"
          [] p = "" -> "e3b0c44298fc1c149afbf4c8996fb92427ae41e4649b934ca495991b7852b855"]

\* d[k] = v, d.get(k, default)
SetItem(d, k, v) == [x \in DOMAIN d \cup {k} |-> IF x = k THEN v ELSE d[x]]
Get(d, k, default) == IF k \in DOMAIN d THEN d[k] ELSE default

\* json.dump writes an int as a number, a str as a string, None as null
ToJson(value) ==
    CASE value.type = "int" -> Number(value.v)
      [] value.type = "str" -> String(value.v)
      [] value.type = "NoneType" -> JsonNull
json_dump(config_data) == [k \in DOMAIN config_data |-> ToJson(config_data[k])]

\* mutant: a parser that hands every number back as text
FromJson_Text(value) ==
    CASE value.json = "number" -> PyStr("number")
      [] value.json = "string" -> PyStr(value.v)
      [] value.json = "null" -> PyNone
\* json.load reads a number as an int, a string as a str, null as None
FromJson(value) ==
    CASE value.json = "number" -> PyInt(value.v)
      [] value.json = "string" -> PyStr(value.v)
      [] value.json = "null" -> PyNone
json_load(object) == [k \in DOMAIN object |-> FromJson(object[k])]

\* a file at the configuration path: bytes that are not UTF-8 text, text
\* that does not parse (an interrupted write leaves it so), or the text of
\* a JSON object
Undecodable == [exists |-> TRUE, decodes |-> FALSE, parses |-> FALSE, object |-> <<>>]
Unparsable == [exists |-> TRUE, decodes |-> TRUE, parses |-> FALSE, object |-> <<>>]
Text(object) == [exists |-> TRUE, decodes |-> TRUE, parses |-> TRUE, object |-> object]

\* where the file system fails in a call: when load_config opens or reads
\* the file; when save_config opens it, or while it writes
NoConfigFault == [load |-> "none", save |-> "none"]
LoadFaults == {NoConfigFault, [load |-> "read", save |-> "none"]}
SaveFaults == {NoConfigFault, [load |-> "none", save |-> "open"],
               [load |-> "none", save |-> "write"]}
SetterFaults == LoadFaults \cup SaveFaults

\* load_config(): what it returns, whether it printed, whether it raised
load_config_call(file, fault) ==
    IF ~file.exists
    THEN [config |-> EmptyDict, diag |-> FALSE, raised |-> FALSE]
    ELSE CASE fault.load = "read" ->
                \* IOError
                [config |-> EmptyDict, diag |-> FALSE, raised |-> FALSE]
           [] fault.load # "read" /\ ~file.decodes ->
                \* UnicodeDecodeError: a ValueError the except clause does not name
                [config |-> EmptyDict, diag |-> FALSE, raised |-> TRUE]
           [] fault.load # "read" /\ file.decodes /\ ~file.parses ->
                \* json.JSONDecodeError
                [config |-> EmptyDict, diag |-> FALSE, raised |-> FALSE]
           [] OTHER ->
                [config |-> json_load(file.object), diag |-> FALSE, raised |-> FALSE]

\* mutant: a save that empties the mapping it could not write
save_config_call_Consuming(file, config_data, fault) ==
    CASE fault.save = "open" ->
            [file |-> file, config_data |-> EmptyDict, diag |-> TRUE, raised |-> FALSE]
      [] fault.save = "write" ->
            [file |-> Unparsable, config_data |-> EmptyDict, diag |-> TRUE,
             raised |-> FALSE]
      [] OTHER ->
            [file |-> Text(json_dump(config_data)), config_data |-> config_data,
             diag |-> FALSE, raised |-> FALSE]
\* save_config(config_data): the file it leaves, the mapping object the
\* caller holds afterwards, whether it printed, whether it raised
save_config_call(file, config_data, fault) ==
    CASE fault.save = "open" ->
            [file |-> file, config_data |-> config_data, diag |-> TRUE, raised |-> FALSE]
      [] fault.save = "write" ->
            [file |-> Unparsable, config_data |-> config_data, diag |-> TRUE,
             raised |-> FALSE]
      [] OTHER ->
            [file |-> Text(json_dump(config_data)), config_data |-> config_data,
             diag |-> FALSE, raised |-> FALSE]

\* the getters: load_config().get(key, default)
get_call(file, key, default, fault) ==
    LET l == load_config_call(file, fault)
    IN [file |-> file, result |-> IF l.raised THEN PyNone ELSE Get(l.config, key, default),
        diag |-> l.diag, raised |-> l.raised]
get_photo_directory_call(file, fault) == get_call(file, "photo_directory", PyStr(""), fault)
get_thumbnail_size_call(file, fault) ==
    get_call(file, "thumbnail_size", PyInt(DefaultThumbnailSize), fault)
get_drive_folder_id_call(file, fault) == get_call(file, "drive_folder_id", PyNone, fault)
get_safe_password_hash_call(file, fault) ==
    get_call(file, "safe_password_hash", PyNone, fault)

\* the setters: config = load_config(); config[key] = value; save_config(config)
set_call(file, key, value, fault) ==
    LET l == load_config_call(file, fault)
        s == save_config_call(file, SetItem(l.config, key, value), fault)
    IN IF l.raised
       THEN [file |-> file, result |-> PyNone, diag |-> l.diag, raised |-> TRUE]
       ELSE [file |-> s.file, result |-> PyNone, diag |-> l.diag \/ s.diag,
             raised |-> s.raised]
set_photo_directory_call(file, path, fault) == set_call(file, "photo_directory", path, fault)
set_thumbnail_size_call(file, size, fault) == set_call(file, "thumbnail_size", size, fault)
set_drive_folder_id_call(file, folder_id, fault) ==
    set_call(file, "drive_folder_id", folder_id, fault)

\* mutant: the plaintext stored in place of its digest
set_safe_password_hash_call_Plain(file, password_plain, fault) ==
    set_call(file, "safe_password_hash", PyStr(password_plain), fault)
set_safe_password_hash_call(file, password_plain, fault) ==
    LET hex_dig == sha256[password_plain]
    IN set_call(file, "safe_password_hash", PyStr(hex_dig), fault)

\* Python's truth value of a stored value: None, "" and 0 are false
Truthy(value) ==
    CASE value.type = "NoneType" -> FALSE
      [] value.type = "str" -> value.v # ""
      [] value.type = "int" -> value.v # 0

\* Python's == of a str with a stored value
StrEquals(s, value) == value.type = "str" /\ value.v = s

\* mutant: any password passes once a hash is stored
verify_safe_password_call_AnyStored(file, password_plain, fault) ==
    LET g == get_safe_password_hash_call(file, fault)
        stored_hash == g.result
    IN [file |-> file, result |-> ~g.raised /\ Truthy(stored_hash), diag |-> g.diag,
        raised |-> g.raised]
verify_safe_password_call(file, password_plain, fault) ==
    LET g == get_safe_password_hash_call(file, fault)
        stored_hash == g.result
        hex_dig == sha256[password_plain]
    IN [file |-> file,
        result |-> IF g.raised \/ ~Truthy(stored_hash)
                   THEN FALSE
                   ELSE StrEquals(hex_dig, stored_hash),
        diag |-> g.diag, raised |-> g.raised]

(* State of the configuration store *)

ConfigCall(op, arg, fault, r) ==
    [op |-> op, arg |-> arg, load |-> fault.load, save |-> fault.save,
     result |-> r.result, diag |-> r.diag, raised |-> r.raised]

\* the history after set_safe_password_hash(password_plain), which wrote the
\* file or failed to
Hashed(h, password_plain, wrote) ==
    [last |-> IF wrote THEN <<password_plain>> ELSE h.last,
     seen |-> h.seen \cup {password_plain}]

\* the file the program finds at startup: none, a damaged one, or one an
\* earlier run wrote
StartupConfigs ==
    {NoFile, Undecodable, Unparsable, Text(<<>>),
     Text(json_dump(SetItem(SetItem(EmptyDict, "photo_directory", PyStr("/photos")),
                            "thumbnail_size", PyInt(256))))}

\* the repository of a program that only uses its configuration
RepositoryAtRest ==
    /\ tables = {}
    /\ photosCols = <<>>
    /\ photos = {}
    /\ faces = {}
    /\ constructed = FALSE
    /\ openConns = 0
    /\ openTxns = 0
    /\ lastCall = NoCall
    /\ written = <<>>
    /\ attached = <<>>

InitConfig ==
    /\ RepositoryAtRest
    /\ ThreadsAtRest
    /\ config_file \in StartupConfigs
    /\ lastConfig = NoConfigCall
    /\ hashed = NothingHashed

\* what a call's result r leaves behind
ConfigLeaves(op, arg, fault, r) ==
    /\ config_file' = r.file
    /\ lastConfig' = ConfigCall(op, arg, fault, r)
    /\ UNCHANGED <<repository, threads>>

load_config(fault) ==
    /\ \E l \in {load_config_call(config_file, fault)} :
         ConfigLeaves("load_config", PyNone, fault,
                      [file |-> config_file, result |-> l.config,
                       diag |-> l.diag, raised |-> l.raised])
    /\ UNCHANGED hashed

save_config(config_data, fault) ==
    /\ \E s \in {save_config_call(config_file, config_data, fault)} :
         ConfigLeaves("save_config", config_data, fault,
                      [file |-> s.file, result |-> s.config_data,
                       diag |-> s.diag, raised |-> s.raised])
    /\ UNCHANGED hashed

get_photo_directory(fault) ==
    /\ ConfigLeaves("get_photo_directory", PyNone, fault,
                    get_photo_directory_call(config_file, fault))
    /\ UNCHANGED hashed

set_photo_directory(path, fault) ==
    /\ ConfigLeaves("set_photo_directory", path, fault,
                    set_photo_directory_call(config_file, path, fault))
    /\ UNCHANGED hashed

get_thumbnail_size(fault) ==
    /\ ConfigLeaves("get_thumbnail_size", PyNone, fault,
                    get_thumbnail_size_call(config_file, fault))
    /\ UNCHANGED hashed

set_thumbnail_size(size, fault) ==
    /\ ConfigLeaves("set_thumbnail_size", size, fault,
                    set_thumbnail_size_call(config_file, size, fault))
    /\ UNCHANGED hashed

get_drive_folder_id(fault) ==
    /\ ConfigLeaves("get_drive_folder_id", PyNone, fault,
                    get_drive_folder_id_call(config_file, fault))
    /\ UNCHANGED hashed

set_drive_folder_id(folder_id, fault) ==
    /\ ConfigLeaves("set_drive_folder_id", folder_id, fault,
                    set_drive_folder_id_call(config_file, folder_id, fault))
    /\ UNCHANGED hashed

get_safe_password_hash(fault) ==
    /\ ConfigLeaves("get_safe_password_hash", PyNone, fault,
                    get_safe_password_hash_call(config_file, fault))
    /\ UNCHANGED hashed

set_safe_password_hash(password_plain, fault) ==
    /\ \E r \in {set_safe_password_hash_call(config_file, password_plain, fault)} :
         /\ ConfigLeaves("set_safe_password_hash", PyStr(password_plain), fault, r)
         /\ hashed' = Hashed(hashed, password_plain, fault.save = "none" /\ ~r.raised)

verify_safe_password(password_plain, fault) ==
    /\ ConfigLeaves("verify_safe_password", PyStr(password_plain), fault,
                    verify_safe_password_call(config_file, password_plain, fault))
    /\ UNCHANGED hashed

\* the mappings the program hands to save_config directly
Mappings == {EmptyDict, SetItem(EmptyDict, "thumbnail_size", PyInt(64))}

NextConfig ==
    \/ \E fault \in LoadFaults : load_config(fault)
    \/ \E config_data \in Mappings, fault \in SaveFaults : save_config(config_data, fault)
    \/ \E fault \in LoadFaults : get_photo_directory(fault)
    \/ \E path \in Directories, fault \in SetterFaults : set_photo_directory(path, fault)
    \/ \E fault \in LoadFaults : get_thumbnail_size(fault)
    \/ \E size \in Sizes, fault \in SetterFaults : set_thumbnail_size(size, fault)
    \/ \E fault \in LoadFaults : get_drive_folder_id(fault)
    \/ \E folder_id \in FolderIds, fault \in SetterFaults :
          set_drive_folder_id(folder_id, fault)
    \/ \E fault \in LoadFaults : get_safe_password_hash(fault)
    \/ \E password_plain \in Plaintexts, fault \in SetterFaults :
          set_safe_password_hash(password_plain, fault)
    \/ \E password_plain \in Plaintexts, fault \in LoadFaults :
          verify_safe_password(password_plain, fault)

\* the configuration store alone, one call after another
SpecConfig == InitConfig /\ [][NextConfig]_vars

----------------------------------------------------------------------------
(* Two setters called at the same time (src/config_manager.py 150-172)     *)

\* the setters a thread may call: the key and the value
SetterCalls ==
    {<<"photo_directory", v>> : v \in Directories}
    \cup {<<"thumbnail_size", v>> : v \in Sizes}
    \cup {<<"drive_folder_id", v>> : v \in FolderIds}

\* mutant: the document is read again when it is saved
setter_config_Reloading(t) ==
    SetItem(json_load(config_file.object), setters[t].key, setters[t].value)
\* config = load_config(); config[key] = value: the mapping thread t saves
setter_config(t) == SetItem(setters[t].loaded, setters[t].key, setters[t].value)

\* thread t calls a setter, which reads the document: config = load_config()
setter_load(t, key, value) ==
    /\ setters[t].pc = "idle"
    /\ \E l \in {load_config_call(config_file, NoConfigFault)} :
         /\ ~l.raised
         /\ setters' = [setters EXCEPT ![t] =
                          [pc |-> "loaded", key |-> key, value |-> value,
                           loaded |-> l.config, other |-> setters[Other(t)].pc,
                           clean |-> TRUE]]
    /\ UNCHANGED <<config_file, lastConfig, hashed, saved, updaters, writeLock, committed>>
    /\ UNCHANGED repository

\* save_config: open(config_path, 'w') empties the file
setter_open(t) ==
    /\ setters[t].pc = "loaded"
    /\ config_file' = Unparsable
    /\ setters' = [setters EXCEPT ![t].pc = "opened"]
    /\ UNCHANGED <<lastConfig, hashed, saved, updaters, writeLock, committed>>
    /\ UNCHANGED repository

\* save_config: json.dump and the close of the file put the text at the
\* start of the file; when another thread has written since this one opened
\* the file, the end of a longer text of the other may stay behind it
setter_write(t, garbled) ==
    /\ setters[t].pc = "opened"
    /\ garbled => ~setters[t].clean
    /\ config_file' = IF garbled THEN Unparsable ELSE Text(json_dump(setter_config(t)))
    /\ setters' = [u \in Threads |->
                     IF u = t THEN [setters[t] EXCEPT !.pc = "done"]
                     ELSE IF setters[u].pc = "opened"
                          THEN [setters[u] EXCEPT !.clean = FALSE]
                          ELSE setters[u]]
    /\ saved' = Append(saved, t)
    /\ UNCHANGED <<lastConfig, hashed, updaters, writeLock, committed>>
    /\ UNCHANGED repository

\* the files the two threads may find: no file or a file that can be read
InitSetters ==
    /\ RepositoryAtRest
    /\ config_file \in StartupConfigs \ {Undecodable}
    /\ lastConfig = NoConfigCall
    /\ hashed = NothingHashed
    /\ ThreadsAtRest

NextSetters ==
    \/ \E t \in Threads, c \in SetterCalls : setter_load(t, c[1], c[2])
    \/ \E t \in Threads : setter_open(t)
    \/ \E t \in Threads, garbled \in BOOLEAN : setter_write(t, garbled)

\* two threads, each calling one setter
SpecSetters == InitSetters /\ [][NextSetters]_vars

----------------------------------------------------------------------------
(* Two calls of update_photo_date at the same time (src/db_manager.py      *)
(* 120-130): each has its own connection; the database file lets one       *)
(* connection write at a time                                              *)

\* the database the two calls find: the one create_tables leaves of the
\* earlier version's file
MigratedFile ==
    create_tables_call(Database(AllTables, LegacyCols, {LegacyRow1, LegacyRow2}), NoFault).db

\* thread t enters update_photo_date: conn = self._get_connection()
updater_connect(t, filepath, new_year, new_month) ==
    /\ updaters[t].pc = "idle"
    /\ updaters' = [updaters EXCEPT ![t] =
                      [pc |-> "connected", filepath |-> filepath,
                       date |-> <<new_year, new_month>>, conn |-> get_connection(DB)]]
    /\ UNCHANGED <<setters, saved, writeLock, committed>>
    /\ UNCHANGED <<repository, configuration>>

\* cursor.execute("UPDATE ..."): the statement begins a transaction and
\* takes the write lock of the file; while another connection holds it the
\* statement waits, and when the wait runs out (busy) it raises
\* sqlite3.OperationalError, which the except clause prints
updater_execute(t, busy) ==
    /\ updaters[t].pc = "connected"
    /\ busy <=> writeLock # 0
    /\ IF busy
       THEN /\ updaters' = [updaters EXCEPT ![t].pc = "failed"]
            /\ UNCHANGED writeLock
       ELSE \E s \in {UpdateWhere(DB, updaters[t].filepath,
                                  updaters[t].date[1], updaters[t].date[2])} :
              /\ s.ok
              /\ updaters' = [updaters EXCEPT
                                ![t].pc = "executed",
                                ![t].conn = ExecDML(Begin(get_connection(DB)), s.db)]
              /\ writeLock' = t
    /\ UNCHANGED <<setters, saved, committed>>
    /\ UNCHANGED <<repository, configuration>>

\* conn.commit(): the change reaches the file and the lock is released
updater_commit(t) ==
    /\ updaters[t].pc = "executed"
    /\ \E conn \in {Commit(updaters[t].conn)} :
         /\ photos' = conn.disk.photos
         /\ updaters' = [updaters EXCEPT ![t].pc = "committed", ![t].conn = conn]
    /\ writeLock' = 0
    /\ committed' = Append(committed, t)
    /\ UNCHANGED <<tables, photosCols, faces, constructed, openConns, openTxns,
                   lastCall, written, attached>>
    /\ UNCHANGED <<setters, saved>>
    /\ UNCHANGED configuration

\* finally: conn.close(), and the call returns
updater_close(t) ==
    /\ updaters[t].pc \in {"committed", "failed"}
    /\ updaters' = [updaters EXCEPT ![t].pc = "done", ![t].conn = Close(@)]
    /\ UNCHANGED <<setters, saved, writeLock, committed>>
    /\ UNCHANGED <<repository, configuration>>

InitUpdaters ==
    /\ tables = MigratedFile.tables
    /\ photosCols = MigratedFile.cols
    /\ photos = MigratedFile.photos
    /\ faces = {}
    /\ constructed = TRUE
    /\ openConns = 0
    /\ openTxns = 0
    /\ lastCall = NoCall
    /\ written = <<>>
    /\ attached = <<>>
    /\ ConfigAtRest
    /\ ThreadsAtRest

NextUpdaters ==
    \/ \E t \in Threads, f \in Filepaths, d \in Dates : updater_connect(t, f, d[1], d[2])
    \/ \E t \in Threads, busy \in BOOLEAN : updater_execute(t, busy)
    \/ \E t \in Threads : updater_commit(t)
    \/ \E t \in Threads : updater_close(t)

\* two threads, each calling update_photo_date once
SpecUpdaters == InitUpdaters /\ [][NextUpdaters]_vars

----------------------------------------------------------------------------

Next ==
    \/ \E fault \in Faults(6) : VisageVaultDB(fault)
    \/ \E fault \in Faults(6) : create_tables(fault)
    \/ \E photos_data \in Batches(MaxId - MaxRowid(photos)), fault \in Faults(0) :
          bulk_upsert_photos(photos_data, fault)
    \/ \E f \in Filepaths, d \in Dates, fault \in Faults(1) :
          update_photo_date(f, d[1], d[2], fault)
    \/ \E f \in Filepaths, fault \in Faults(1) : get_photo_date(f, fault)
    \/ \E fault \in Faults(1) : load_all_photo_dates(fault)

\* the repository's methods alone
Spec == Init /\ [][Next]_vars

Pipeline ==
    \/ \E id \in 1..MaxId : pipeline_insert_face(id)
    \/ \E f \in Filepaths, h \in Hashes : pipeline_set_file_hash(f, h)

NextPipeline == Next \/ Pipeline

\* the repository's methods and the pipeline's writes on the same file
SpecPipeline == Init /\ [][NextPipeline]_vars

NextHashes == Next \/ \E f \in Filepaths, h \in Hashes : pipeline_set_file_hash(f, h)

\* the repository's methods and the pipeline's file_hash writes
SpecHashes == Init /\ [][NextHashes]_vars

\* the file an earlier run of the program left: the photos of MigratedFile,
\* one of them with a file_hash, and a face of that photo
InitIndexed ==
    /\ tables = MigratedFile.tables
    /\ photosCols = MigratedFile.cols
    /\ photos = MigratedFile.photos
    /\ faces = {[id |-> 1, photo_id |-> 1]}
    /\ constructed = FALSE
    /\ openConns = 0
    /\ openTxns = 0
    /\ lastCall = NoCall
    /\ written = [f \in {r.filepath : r \in MigratedFile.photos} |->
                    LET r == CHOOSE x \in MigratedFile.photos : x.filepath = f
                    IN <<r.year, r.month>>]
    /\ attached = [i \in {1} |-> "/a/1.jpg"]
    /\ ConfigAtRest
    /\ ThreadsAtRest

\* the repository's methods on that file
SpecIndexed == InitIndexed /\ [][Next]_vars

----------------------------------------------------------------------------
(* Properties *)

Ready(db) == ~SchemaError(db, {"filepath", "year", "month"})
DBnext == Database(tables', photosCols', photos')

\* C1: after bulk_upsert_photos([(f, y, m)]) returned without a storage
\* error, whether f had a row before or not, get_photo_date(f) on a working
\* store returns exactly (y, m).
C1_UpsertThenGet ==
    (lastCall.op = "bulk_upsert_photos" /\ lastCall.n = 1 /\ lastCall.outcome = "ok")
    => LET g == get_photo_date_call(DB, lastCall.f, NoFault)
       IN g.outcome = "ok" /\ g.result = lastCall.date

C1_Witness ==
    /\ lastCall.op = "bulk_upsert_photos" /\ lastCall.n = 1
    /\ lastCall.outcome = "ok" /\ lastCall.existed
    /\ get_photo_date_call(DB, lastCall.f, NoFault).result = lastCall.date

\* C2: a load_all_photo_dates() that met no storage error returns one entry
\* for each filepath ever upserted and no other, with the (year, month) of
\* the last committed write to it (a later triple of a batch overriding an
\* earlier one).
C2_LoadAllIsHistory ==
    (lastCall.op = "load_all_photo_dates" /\ lastCall.outcome = "ok")
    => lastCall.result = written

C2_Witness ==
    /\ lastCall.op = "load_all_photo_dates" /\ lastCall.outcome = "ok"
    /\ DOMAIN lastCall.result = Filepaths
    /\ lastCall.result["/a/1.jpg"] = <<"2023", "12">>
    /\ lastCall.result["/a/2.jpg"] = <<"2024", "01">>
    /\ MaxRowid(photos) = 3

\* C3: bulk_upsert_photos is atomic: a call that met a storage error, at
\* whichever entry, leaves the file as it was; a call that met none has
\* committed every entry.
C3_BatchAtomic ==
    [][lastCall'.op = "bulk_upsert_photos" =>
        IF lastCall'.outcome = "ok"
        THEN /\ lastCall'.n >= 1 =>
                  \A f \in DOMAIN written' : SelectDate(DBnext, f).row = written'[f]
             /\ lastCall'.n = 1 => SelectDate(DBnext, lastCall'.f).row = lastCall'.date
        ELSE DBnext = DB]_vars

C3_Witness ==
    /\ lastCall.op = "bulk_upsert_photos" /\ lastCall.outcome = "error"
    /\ lastCall.at >= 2
    /\ photos # {}

\* C4: no storage exception crosses the boundary of this layer: every
\* method returns normally, whatever step the storage engine fails at.
C4_NeverRaises == lastCall.outcome # "raised"

\* C5: every face's photo_id is the id of an existing photo row, the row of
\* the filepath the face was inserted for.
C5_FacesReferToTheirPhoto ==
    \A fc \in faces :
        \E r \in photos : r.id = fc.photo_id /\ r.filepath = attached[fc.id]

\* C6: update_photo_date on a filepath that has no row leaves table photos
\* as it was, and on a working store is no error: it returns normally and
\* prints no diagnostic.
C6_UnknownUpdateIsNoOp ==
    [][(lastCall'.op = "update_photo_date" /\ ~lastCall'.existed) =>
        /\ DBnext = DB
        /\ (lastCall'.fault = "none" /\ Ready(DB))
           => (lastCall'.outcome = "ok" /\ ~lastCall'.diag)]_vars

C6_Witness ==
    /\ lastCall.op = "update_photo_date" /\ ~lastCall.existed
    /\ lastCall.outcome = "ok" /\ ~lastCall.diag
    /\ photos # {}

\* C7: create_tables is idempotent: after a run that met no storage error
\* (from no file, an empty file or a legacy file), a second run meets none
\* either and leaves the file as the first left it, with exactly the four
\* tables and exactly one month column.
C7_CreateTablesIdempotent ==
    (lastCall.op = "create_tables" /\ lastCall.outcome = "ok")
    => /\ tables = AllTables
       /\ Cardinality({i \in 1..Len(photosCols) : photosCols[i] = "month"}) = 1
       /\ LET second == create_tables_call(DB, NoFault)
          IN second.outcome = "ok" /\ second.db = DB

C7_Witness ==
    /\ lastCall.op = "create_tables" /\ lastCall.outcome = "ok" /\ ~lastCall.migrated
    /\ \E r \in photos : r.year # NULL /\ r.month = NULL

\* C8: the migration is non-destructive: create_tables removes no table, no
\* column and no row, changes no value of a column that was there, and the
\* month column it adds is null in every row that was there.
C8_MigrationKeepsData ==
    [][lastCall'.op = "create_tables" =>
        /\ tables \subseteq tables'
        /\ Columns(photosCols) \subseteq Columns(photosCols')
        /\ Cardinality(photos') = Cardinality(photos)
        /\ \A r \in photos : \E r2 \in photos' :
              /\ \A c \in DOMAIN r : r2[c] = r[c]
              /\ lastCall'.migrated => r2.month = NULL
        /\ (lastCall'.outcome = "ok" /\ "photos" \in tables)
           => "month" \in Columns(photosCols')]_vars

C8_Witness ==
    /\ lastCall.op = "create_tables" /\ lastCall.migrated
    /\ Cardinality(photos) = 2
    /\ \A r \in photos : r.month = NULL
    /\ \E r \in photos : r.file_hash = "h1"

\* C9: no two photo rows hold the same non-null file_hash.
C9_FileHashUnique ==
    \A r1 \in photos, r2 \in photos :
        (r1 # r2 /\ r1.file_hash # NULL) => r1.file_hash # r2.file_hash

C9_Witness ==
    /\ lastCall.op = "pipeline" /\ lastCall.outcome = "error"
    /\ Cardinality(photos) = 2

\* C10: between calls the repository holds no connection and no
\* transaction, after calls that failed as after calls that did not.
C10_NothingHeld == openConns = 0 /\ openTxns = 0

C10_Witness ==
    /\ lastCall.op = "update_photo_date" /\ lastCall.fault = "commit"
    /\ lastCall.outcome = "error" /\ lastCall.existed
    /\ openConns = 0 /\ openTxns = 0

----------------------------------------------------------------------------
(* Properties of the configuration store *)

\* the file holds a document with a value under key
Stored(file, key) == file.exists /\ file.parses /\ key \in DOMAIN file.object

\* the last call was the setter op and its save wrote the file
Wrote(op) == lastConfig.op = op /\ lastConfig.save = "none" /\ ~lastConfig.raised

\* the file can be read: it is absent or it is text
Readable(file) == file.exists => file.decodes

\* C11: once set_safe_password_hash(p) has written the file, and for as long
\* as that stored hash is still in the file, verify_safe_password(q) on a
\* readable file returns true when the digest of q is the digest of p
\* (q = p in particular) and false when the digests differ; while no
\* password was ever set it returns false for every q.
C11_VerifyAfterSet ==
    \A q \in Plaintexts :
        LET v == verify_safe_password_call(config_file, q, NoConfigFault).result
        IN /\ (hashed.seen = {} /\ Readable(config_file)) => v = FALSE
           /\ Wrote("set_safe_password_hash")
                 => v = (sha256[q] = sha256[lastConfig.arg.v])
           /\ (hashed.last # <<>> /\ Stored(config_file, "safe_password_hash"))
                 => v = (sha256[q] = sha256[hashed.last[1]])

C11_Witness ==
    /\ Wrote("set_safe_password_hash")
    /\ lastConfig.arg = PyStr("secret")
    /\ verify_safe_password_call(config_file, "secret", NoConfigFault).result = TRUE
    /\ verify_safe_password_call(config_file, "wrong", NoConfigFault).result = FALSE

\* C12: in every state the configuration calls reach, the file holds under
\* safe_password_hash either nothing or the hex digest of the plaintext of
\* the most recent set_safe_password_hash call that wrote the file, and no
\* value of the document is a plaintext that was ever given to it.
C12_OnlyTheDigestIsStored ==
    /\ Stored(config_file, "safe_password_hash")
          => /\ hashed.last # <<>>
             /\ config_file.object["safe_password_hash"] = String(sha256[hashed.last[1]])
    /\ Wrote("set_safe_password_hash")
          => /\ Stored(config_file, "safe_password_hash")
             /\ hashed.last = <<lastConfig.arg.v>>
    /\ \A k \in DOMAIN config_file.object, p \in hashed.seen :
          config_file.object[k].json = "string" => config_file.object[k].v # p

C12_Witness ==
    /\ Wrote("set_safe_password_hash")
    /\ lastConfig.arg = PyStr("wrong")
    /\ hashed.seen = {"secret", "wrong"}
    /\ Stored(config_file, "safe_password_hash")
    /\ config_file.object["safe_password_hash"] = String(sha256["wrong"])
    /\ "photo_directory" \in DOMAIN config_file.object

\* two Python values are equal
SameValue(a, b) == a.type = b.type /\ a.v = b.v

\* C13: after set_thumbnail_size(v) has written the file, get_thumbnail_size()
\* on a readable file returns v, and the same holds of photo_directory and of
\* drive_folder_id; with no file at all get_thumbnail_size() returns 128.
C13_SetThenGet ==
    /\ Wrote("set_thumbnail_size")
          => SameValue(get_thumbnail_size_call(config_file, NoConfigFault).result,
                       lastConfig.arg)
    /\ Wrote("set_photo_directory")
          => SameValue(get_photo_directory_call(config_file, NoConfigFault).result,
                       lastConfig.arg)
    /\ Wrote("set_drive_folder_id")
          => SameValue(get_drive_folder_id_call(config_file, NoConfigFault).result,
                       lastConfig.arg)
    /\ ~config_file.exists
          => SameValue(get_thumbnail_size_call(config_file, NoConfigFault).result,
                       PyInt(128))

C13_Witness ==
    /\ Wrote("set_thumbnail_size")
    /\ lastConfig.arg = PyInt(64)
    /\ Stored(config_file, "photo_directory")
    /\ get_thumbnail_size_call(config_file, NoConfigFault).result = PyInt(64)

\* load_config met one of its three failures: no file, a file that cannot
\* be read, a file that is not a JSON document
LoadFailed ==
    /\ lastConfig.op = "load_config"
    /\ ~config_file.exists \/ lastConfig.load = "read" \/ ~config_file.parses

\* C14: when the file is absent, unreadable or not valid JSON, load_config()
\* returns the empty mapping, emits a diagnostic and does not raise, and
\* every typed getter then returns its default.
C14_LoadFailureIsReported ==
    LoadFailed
      => /\ ~lastConfig.raised
         /\ DOMAIN lastConfig.result = {}
         /\ lastConfig.diag
         /\ (~config_file.exists \/ ~config_file.parses)
               => LET fine == NoConfigFault
                  IN /\ get_photo_directory_call(config_file, fine).result.v = ""
                     /\ get_thumbnail_size_call(config_file, fine).result.v = 128
                     /\ get_drive_folder_id_call(config_file, fine).result = PyNone
                     /\ get_safe_password_hash_call(config_file, fine).result = PyNone

\* two mappings hold the same keys with the same values
SameMapping(a, b) ==
    /\ DOMAIN a = DOMAIN b
    /\ \A k \in DOMAIN a : SameValue(a[k], b[k])

\* C15: when the write of save_config(mapping) fails, at open or while
\* writing, the failure is printed and not raised, and the mapping the
\* caller passed is the same afterwards; a setter that loaded the document
\* and whose save fails prints and returns in the same way.
C15_SaveFailureIsReported ==
    /\ (lastConfig.op = "save_config" /\ lastConfig.save # "none")
          => /\ lastConfig.diag
             /\ ~lastConfig.raised
             /\ SameMapping(lastConfig.result, lastConfig.arg)
    /\ (lastConfig.op # "save_config" /\ lastConfig.save # "none" /\ Readable(config_file))
          => /\ lastConfig.diag
             /\ ~lastConfig.raised

C15_Witness ==
    /\ lastConfig.op = "save_config"
    /\ lastConfig.save = "write"
    /\ lastConfig.diag
    /\ DOMAIN lastConfig.arg = {"thumbnail_size"}
    /\ lastConfig.result = lastConfig.arg
    /\ config_file = Unparsable

----------------------------------------------------------------------------
(* Properties of concurrent calls *)

\* both setters have returned, and they were for two different keys
BothSet ==
    /\ \A t \in Threads : setters[t].pc = "done"
    /\ setters[1].key # setters[2].key

\* both threads read the document before either began to save
BothLoadedFirst == \A t \in Threads : setters[t].other \in {"idle", "loaded"}

\* thread t called its setter after the other thread's setter had returned
RanAfter(t) == setters[t].other = "done" /\ setters[Other(t)].other = "idle"

\* every save wrote the file it had opened before another save wrote
SavedInTurn == \A t \in Threads : setters[t].clean

\* the document holds the value thread t set
Holds(file, t) ==
    /\ Stored(file, setters[t].key)
    /\ SameValue(FromJson(file.object[setters[t].key]), setters[t].value)

BothUpdated ==
    /\ \A t \in Threads : updaters[t].pc = "done"
    /\ updaters[1].filepath = updaters[2].filepath
    /\ Exists(MigratedFile.photos, updaters[1].filepath)

\* the (year, month) of the row of filepath f
DateOf(rows, f) == LET r == CHOOSE x \in rows : x.filepath = f IN <<r.year, r.month>>

\* C17: after two concurrent update_photo_date calls for the same existing
\* filepath have returned, whatever the interleaving of their steps, the
\* row holds the (year, month) of the call that committed last, never the
\* year of one and the month of the other, and the table has the rows it
\* had: one per filepath, with the ids and hashes they had.
C17_LastCommitWins ==
    BothUpdated
      => LET f == updaters[1].filepath
         IN /\ committed # <<>>
            /\ DateOf(photos, f) = updaters[committed[Len(committed)]].date
            /\ DateOf(photos, f) \in {updaters[t].date : t \in Threads}
            /\ Cardinality(photos) = Cardinality(MigratedFile.photos)
            /\ {[id |-> r.id, filepath |-> r.filepath, file_hash |-> r.file_hash]
                   : r \in photos}
               = {[id |-> r.id, filepath |-> r.filepath, file_hash |-> r.file_hash]
                    : r \in MigratedFile.photos}

C17_Witness ==
    /\ BothUpdated
    /\ committed = <<2, 1>>
    /\ updaters[1].date = <<"2024", "01">>
    /\ updaters[2].date = <<"2023", "12">>
    /\ updaters[1].filepath = "/a/2.jpg"
    /\ DateOf(photos, "/a/2.jpg") = <<"2024", "01">>

----------------------------------------------------------------------------
(* Properties of the rows the repository writes *)

\* the rows of filepath f
RowsOf(rows, f) == {r \in rows : r.filepath = f}

\* the step wrote a triple of filepath f, which had a row: the batch was
\* the single triple of f, or the row of f is not the row it was
Rewritten(f) ==
    /\ Exists(photos, f)
    /\ \/ lastCall'.n = 1 /\ lastCall'.f = f
       \/ RowsOf(photos', f) # RowsOf(photos, f)

\* C18: a committed bulk_upsert_photos that wrote a triple of a filepath
\* which already had a row leaves exactly one row for that filepath, with
\* the year and month of the triple written last for it and a null
\* file_hash, whatever hash the row had.
C18_UpsertReplacesTheRow ==
    [][(lastCall'.op = "bulk_upsert_photos" /\ lastCall'.outcome = "ok")
         => \A f \in Filepaths :
              Rewritten(f)
                => /\ Cardinality(RowsOf(photos', f)) = 1
                   /\ \A r \in RowsOf(photos', f) :
                         /\ r.file_hash = NULL
                         /\ <<r.year, r.month>> = written'[f]
                         /\ lastCall'.n = 1 => <<r.year, r.month>> = lastCall'.date]_vars

\* the row of /a/1.jpg, which had the hash h1 and the id 1, was replaced by
\* the last call; the row of /a/2.jpg is still the one the file came with
C18_Witness ==
    /\ lastCall.op = "bulk_upsert_photos" /\ lastCall.outcome = "ok"
    /\ lastCall.n = 1 /\ lastCall.f = "/a/1.jpg" /\ lastCall.existed
    /\ RowsOf(photos, "/a/1.jpg")
         = {[id |-> 3, filepath |-> "/a/1.jpg", file_hash |-> NULL,
             year |-> lastCall.date[1], month |-> lastCall.date[2]]}
    /\ \E r \in photos : r.id = 2 /\ r.filepath = "/a/2.jpg" /\ r.year = NULL

\* the last call was get_photo_date and it returned None
ReturnedNone ==
    /\ lastCall.op = "get_photo_date"
    /\ lastCall.outcome # "raised"
    /\ lastCall.result = None

\* the last call met a storage error
StorageError == lastCall.outcome # "ok"

\* C19: get_photo_date(f) returns None exactly when no row has filepath f
\* or a storage error occurred; when the row of f has a null year and a
\* null month it returns the pair (null, null), which is not None.
C19_AbsentIsNotNullDate ==
    lastCall.op = "get_photo_date"
      => /\ ReturnedNone <=> (~lastCall.existed \/ StorageError)
         /\ (lastCall.existed /\ ~StorageError)
               => /\ lastCall.result = DateOf(photos, lastCall.f)
                  /\ lastCall.result # None

\* C20: update_photo_date(f, y, m) on a filepath that has a row changes
\* nothing but the year and month of that row: the row keeps its id and its
\* file_hash, every other photo row, the faces and the tables stay as they
\* were, and no row is added or removed.
C20_UpdateTouchesOnlyTheDate ==
    [][(lastCall'.op = "update_photo_date" /\ lastCall'.existed)
         => LET f == lastCall'.f
            IN /\ faces' = faces
               /\ tables' = tables
               /\ photosCols' = photosCols
               /\ Cardinality(photos') = Cardinality(photos)
               /\ \A r \in photos : r.filepath # f => r \in photos'
               /\ \A old \in RowsOf(photos, f) :
                     \E r \in RowsOf(photos', f) :
                        /\ r.id = old.id
                        /\ r.file_hash = old.file_hash
                        /\ IF lastCall'.outcome = "ok"
                           THEN <<r.year, r.month>> = lastCall'.date
                           ELSE r = old]_vars

C20_Witness ==
    /\ lastCall.op = "update_photo_date" /\ lastCall.outcome = "ok"
    /\ lastCall.existed /\ lastCall.f = "/a/1.jpg"
    /\ lastCall.date = <<"2023", "12">>
    /\ [id |-> 1, filepath |-> "/a/1.jpg", file_hash |-> "h1",
        year |-> "2023", month |-> "12"] \in photos
    /\ \E r \in photos : r.id = 2 /\ r.filepath = "/a/2.jpg" /\ r.year = NULL
    /\ faces = {[id |-> 1, photo_id |-> 1]}

====
